---- MODULE Spec2Model ----
(***************************************************************************)
(* A model of the slide and theme code of the ppt_generator front end:     *)
(*   components/Presentation.jsx      Presentation / renderSlide           *)
(*   utils/theme-utils.js             generateSlideStyles, applyThemeTo... *)
(*   config/theme.jsx                 defaultThemes                        *)
(*   contexts/PresentationThemeContext.jsx   themes, setTheme              *)
(*   context/theme-context.jsx        ThemeProvider: switchTheme, setTheme *)
(*   hooks/use-theme.js               useTheme: switchTheme,               *)
(*                                    updateCustomTheme                    *)
(*   slide components (TitleSlide, QuoteSlide)                             *)
(*                                                                         *)
(* JavaScript values are modelled as follows.  A string-valued style or    *)
(* theme value is a tuple of strings: a colour or a font is a 1-tuple, a   *)
(* gradient built by a template literal is the tuple of its parts, so      *)
(* that an undefined operand of the template stays visible in the result.  *)
(* A theme object is a record of the set of its defined sub-objects        *)
(* (objs) and a map from "object.key" paths to values (vals).  Reading a   *)
(* key of a defined object that lacks it gives Undefined; reading a key    *)
(* of a missing object throws a TypeError.                                 *)
(***************************************************************************)
EXTENDS Integers, Sequences, FiniteSets, TLC

VARIABLES
    slides,           \* Presentation: the `slides` prop (the input deck)
    rendered,         \* Presentation: what the component returned
    themed,           \* applyThemeToPresentation: what it returned
    currentTheme,     \* ThemeProvider (context/theme-context.jsx) state
    customTheme,      \* ThemeProvider state; <<>> is null
    hookCurrentTheme, \* useTheme (hooks/use-theme.js) state
    hookCustomTheme,  \* useTheme (hooks/use-theme.js) state; <<>> is null
    presTheme,        \* PresentationThemeProvider state: key of `themes`
    styles,           \* result of the last style resolution
    prompt,           \* App: the presentation description typed so far
    numSlides,        \* App: the requested number of slides
    isGenerating,     \* App: a generation is under way
    currentProject,   \* App: the finished project; <<>> is null
    logs,             \* App: the activity log, oldest entry first
    requests,         \* App: the bodies of the POST /api/generate issued
    unanswered,       \* App: indices of requests still awaited
    joined,           \* App: requests for whose project join_project was emitted
    jobs,             \* server: the generation job of each request
    room,             \* server: requests whose project room holds the client
    events,           \* socket: the closing event of each job
    presentationId,   \* PresentationPreview: the prop; <<>> is none
    presentation,     \* PresentationPreview state; <<>> is null
    currentSlideIndex, \* PresentationPreview state
    isLoading,        \* PresentationPreview state
    error,            \* PresentationPreview state; <<>> is null
    fetching,         \* PresentationPreview: ids whose fetch is under way
    raised,           \* PresentationPreview: an exception escaped a handler
    uiIsGenerating,   \* ppt-generator-ui App: isGenerating
    uiCurrentProject, \* ppt-generator-ui App: currentProject; <<>> is null
    uiLogs,           \* ppt-generator-ui App: logs
    sockets,          \* ppt-generator-ui App: the connection opened by each call
    calls             \* ppt-generator-ui App: where each handleSubmit call stands

vars == <<slides, rendered, themed, currentTheme, customTheme,
          hookCurrentTheme, hookCustomTheme, presTheme, styles,
          prompt, numSlides, isGenerating, currentProject, logs,
          requests, unanswered, joined, jobs, room, events,
          presentationId, presentation, currentSlideIndex, isLoading, error,
          fetching, raised,
          uiIsGenerating, uiCurrentProject, uiLogs, sockets, calls>>

previewVars == <<presentationId, presentation, currentSlideIndex, isLoading,
                 error, fetching, raised>>

submitVars == <<uiIsGenerating, uiCurrentProject, uiLogs, sockets, calls>>

appVars == <<prompt, numSlides, isGenerating, currentProject, logs,
             requests, unanswered, joined, jobs, room, events>>

clientVars == <<prompt, numSlides, isGenerating, currentProject, logs,
                requests, unanswered, joined>>

serverVars == <<jobs, room, events>>

deckVars == <<slides, rendered, themed>>

themeVars == <<currentTheme, customTheme, hookCurrentTheme, hookCustomTheme,
               presTheme, styles>>

\* Longest input deck drawn for Presentation (besides the ten-slide example).
MaxSlides == 3

(***************************************************************************)
(* JavaScript values                                                       *)
(***************************************************************************)
Undefined == <<"undefined">>

Lit(s) == <<s>>

\* `linear-gradient(${angle}deg, ${a}, ${b})`: interpolation of an
\* undefined operand yields the text "undefined" inside the result.
Gradient(angle, a, b) == <<"linear-gradient", angle, a[1], b[1]>>

\* obj.key for a key of a sub-object of a theme.
Prop(theme, path) ==
    IF path \in DOMAIN theme.vals THEN theme.vals[path] ELSE Undefined

\* a || b
OrElse(a, b) == IF a = Undefined THEN b ELSE a

(***************************************************************************)
(* config/theme.jsx: defaultThemes                                         *)
(***************************************************************************)
DefaultThemeVals(p, s, a, bg, bgEnd, t, tSec, tLight, fTitle, fContent, angle) ==
    ("colors.primary" :> Lit(p)) @@ ("colors.secondary" :> Lit(s)) @@
    ("colors.accent" :> Lit(a)) @@ ("colors.background" :> Lit(bg)) @@
    ("colors.background_end" :> Lit(bgEnd)) @@ ("colors.text" :> Lit(t)) @@
    ("colors.text_secondary" :> Lit(tSec)) @@ ("colors.text_light" :> Lit(tLight)) @@
    ("fonts.title" :> Lit(fTitle)) @@ ("fonts.content" :> Lit(fContent)) @@
    ("fonts.heading" :> Lit(fTitle)) @@ ("fonts.body" :> Lit(fContent)) @@
    ("fonts.sizes" :> Lit("sizes")) @@ ("gradient.angle" :> Lit(angle))

corporate_blue ==
    [name |-> Lit("Corporate Blue"),
     objs |-> {"colors", "fonts", "gradient"},
     vals |-> DefaultThemeVals("#1a73e8", "#4285f4", "#34a853", "#ffffff", "#f8f9fa",
                               "#202124", "#5f6368", "#ffffff", "Arial", "Roboto", "135")]

elegant_dark ==
    [name |-> Lit("Elegant Dark"),
     objs |-> {"colors", "fonts", "gradient"},
     vals |-> DefaultThemeVals("#9333ea", "#6366f1", "#ec4899", "#18181b", "#27272a",
                               "#ffffff", "#a1a1aa", "#ffffff", "Playfair Display",
                               "Inter", "135")]

nature_green ==
    [name |-> Lit("Nature Green"),
     objs |-> {"colors", "fonts", "gradient"},
     vals |-> DefaultThemeVals("#059669", "#10b981", "#34d399", "#f0fdf4", "#dcfce7",
                               "#064e3b", "#059669", "#ffffff", "Montserrat",
                               "Source Sans Pro", "120")]

modern_gradient ==
    [name |-> Lit("Modern Gradient"),
     objs |-> {"colors", "fonts", "gradient", "gradients"},
     vals |-> DefaultThemeVals("#6366f1", "#8b5cf6", "#ec4899", "#ffffff", "#f3f4f6",
                               "#111827", "#4b5563", "#ffffff", "Inter", "Inter", "145")
              @@ ("gradients.primary" :> Gradient("145", Lit("#6366f1"), Lit("#8b5cf6")))
              @@ ("gradients.secondary" :> Gradient("145", Lit("#8b5cf6"), Lit("#ec4899")))
              @@ ("gradients.accent" :> Gradient("145", Lit("#ec4899"), Lit("#6366f1")))]

defaultThemeIds == {"corporate_blue", "elegant_dark", "nature_green", "modern_gradient"}

defaultThemes ==
    [id \in defaultThemeIds |->
        CASE id = "corporate_blue" -> corporate_blue
          [] id = "elegant_dark" -> elegant_dark
          [] id = "nature_green" -> nature_green
          [] id = "modern_gradient" -> modern_gradient]

(***************************************************************************)
(* contexts/PresentationThemeContext.jsx: themes                           *)
(***************************************************************************)
PresThemeVals(p, s, a, bg, t, font) ==
    ("colors.primary" :> Lit(p)) @@ ("colors.secondary" :> Lit(s)) @@
    ("colors.accent" :> Lit(a)) @@ ("colors.background" :> Lit(bg)) @@
    ("colors.text" :> Lit(t)) @@
    ("fonts.heading" :> Lit(font)) @@ ("fonts.body" :> Lit(font)) @@
    ("layouts.title" :> Lit("title")) @@ ("layouts.content" :> Lit("content"))

themeNames == {"modern", "elegant", "vibrant"}

themes ==
    [n \in themeNames |->
        CASE n = "modern" ->
               [name |-> Lit("Modern"), objs |-> {"colors", "fonts", "layouts"},
                vals |-> PresThemeVals("rgb(37, 99, 235)", "rgb(79, 70, 229)",
                                       "rgb(236, 72, 153)", "rgb(249, 250, 251)",
                                       "rgb(17, 24, 39)", "font-sans")]
          [] n = "elegant" ->
               [name |-> Lit("Elegant"), objs |-> {"colors", "fonts", "layouts"},
                vals |-> PresThemeVals("rgb(55, 65, 81)", "rgb(107, 114, 128)",
                                       "rgb(234, 88, 12)", "rgb(255, 255, 255)",
                                       "rgb(17, 24, 39)", "font-serif")]
          [] n = "vibrant" ->
               [name |-> Lit("Vibrant"), objs |-> {"colors", "fonts", "layouts"},
                vals |-> PresThemeVals("rgb(236, 72, 153)", "rgb(217, 70, 239)",
                                       "rgb(139, 92, 246)", "rgb(255, 255, 255)",
                                       "rgb(17, 24, 39)", "font-sans")]]

\* components/Presentation.jsx: the module-level CustomTheme.
CustomTheme ==
    [name |-> Undefined, objs |-> {"colors", "fonts"},
     vals |-> ("colors.primary" :> Lit("rgb(37, 99, 235)")) @@
              ("colors.secondary" :> Lit("rgb(79, 70, 229)")) @@
              ("colors.accent" :> Lit("rgb(236, 72, 153)")) @@
              ("colors.background" :> Lit("rgb(249, 250, 251)")) @@
              ("colors.text" :> Lit("rgb(17, 24, 39)")) @@
              ("fonts.heading" :> Lit("font-sans")) @@ ("fonts.body" :> Lit("font-sans"))]

\* The entries of the two registries.
DefaultThemeSet == {defaultThemes[id] : id \in defaultThemeIds}

RegisteredThemes == DefaultThemeSet \cup {themes[n] : n \in themeNames}

(***************************************************************************)
(* utils/theme-utils.js                                                    *)
(***************************************************************************)
TypeError == [status |-> "TypeError", props |-> ("error" :> Lit("TypeError"))]

\* The sub-objects of the theme that generateSlideStyles dereferences while
\* it builds baseStyles and the whole slideTypes table, whatever the type:
\* theme.colors, theme.fonts, theme.gradients (title, section) and
\* theme.patterns (quote).
StyleObjects == {"colors", "fonts", "gradients", "patterns"}

baseStyles(theme) ==
    ("background" :> Prop(theme, "colors.background")) @@
    ("color" :> Prop(theme, "colors.text")) @@
    ("fontFamily" :> Prop(theme, "fonts.body"))

\* The slideTypes table; an entry's own keys override those of baseStyles.
\* Nested selectors are flattened ("h.color" is '& h1, & h2, & h3'.color);
\* of the constant entries only the heading margin is kept.
slideTypes(theme) ==
    [title |->
        ("background" :> Prop(theme, "gradients.primary")) @@
        ("color" :> Lit("#ffffff")) @@
        ("h.fontFamily" :> Prop(theme, "fonts.heading")) @@
        ("h.marginBottom" :> Lit("1.5rem")) @@ baseStyles(theme),
     section |->
        ("background" :> Prop(theme, "gradients.secondary")) @@
        ("color" :> Lit("#ffffff")) @@
        ("h.fontFamily" :> Prop(theme, "fonts.heading")) @@
        ("h.marginBottom" :> Lit("1rem")) @@ baseStyles(theme),
     content |->
        ("h.color" :> Prop(theme, "colors.primary")) @@
        ("h.fontFamily" :> Prop(theme, "fonts.heading")) @@
        ("h.marginBottom" :> Lit("1rem")) @@
        ("strong.color" :> Prop(theme, "colors.secondary")) @@ baseStyles(theme),
     image |->
        ("figcaption.color" :> Prop(theme, "colors.secondary")) @@ baseStyles(theme),
     quote |->
        ("background" :> Prop(theme, "patterns.dots")) @@
        ("blockquote.borderLeft" :>
            <<"4px solid", Prop(theme, "colors.primary")[1]>>) @@
        ("cite.color" :> Prop(theme, "colors.secondary")) @@ baseStyles(theme)]

\* type = 'default' when the argument is undefined; slideTypes[type] ||
\* slideTypes.content.
generateSlideStyles(theme, type) ==
    IF ~(StyleObjects \subseteq theme.objs)
    THEN TypeError
    ELSE [status |-> "ok",
          props |-> IF type \in {"title", "section", "content", "image", "quote"}
                    THEN slideTypes(theme)[type]
                    ELSE slideTypes(theme).content]

\* A slide is null or an object; a missing field reads as "undefined".
NullSlide ==
    [isNull |-> TRUE, type |-> "undefined", title |-> "undefined",
     content |-> "undefined", background |-> "undefined", layout |-> "undefined"]

Slide(type, title, content, background, layout) ==
    [isNull |-> FALSE, type |-> type, title |-> title, content |-> content,
     background |-> background, layout |-> layout]

\* applyThemeToSlide writing into its argument: the type of the input slide
\* is overwritten with the key of the style that was applied.
applyThemeToSlideInPlace(slide, theme) ==
    IF slide.isNull \/ generateSlideStyles(theme, slide.type).status # "ok"
    THEN [status |-> "TypeError", slide |-> slide,
          styles |-> TypeError.props, transition |-> "none"]
    ELSE [status |-> "ok",
          slide |-> [slide EXCEPT !.type =
                        IF slide.type \in {"title", "section", "content", "image", "quote"}
                        THEN slide.type ELSE "content"],
          styles |-> generateSlideStyles(theme, slide.type).props,
          transition |-> "fade"]

\* {...slide, styles, transition: generateTransitionStyles(theme).fade};
\* slide.type of a null slide throws, and so does generateSlideStyles.
applyThemeToSlide(slide, theme) ==
    IF slide.isNull \/ generateSlideStyles(theme, slide.type).status # "ok"
    THEN [status |-> "TypeError", slide |-> slide,
          styles |-> TypeError.props, transition |-> "none"]
    ELSE [status |-> "ok", slide |-> slide,
          styles |-> generateSlideStyles(theme, slide.type).props,
          transition |-> "fade"]

\* presentation.slides.map(...) runs first, then theme.name, theme.colors and
\* theme.fonts are read; `deck` is presentation.slides.
applyThemeToPresentation(deck, theme) ==
    IF \/ deck.kind # "array"
       \/ \E i \in DOMAIN deck.items :
              applyThemeToSlide(deck.items[i], theme).status # "ok"
       \/ ~({"colors", "fonts"} \subseteq theme.objs)
    THEN [status |-> "TypeError", slides |-> <<>>, theme |-> Undefined,
          styles |-> TypeError.props]
    ELSE [status |-> "ok",
          slides |-> [i \in DOMAIN deck.items |->
                          applyThemeToSlide(deck.items[i], theme)],
          theme |-> theme.name,
          styles |-> baseStyles(theme)]

(***************************************************************************)
(* components/Presentation.jsx                                             *)
(***************************************************************************)
\* getLayoutClasses: 'split' and 'image-left' return the same classes.
getLayoutClasses(layout) ==
    CASE layout = "title" -> "flex flex-col justify-center items-center h-full"
      [] layout = "split" -> "grid grid-cols-2 gap-8 h-full"
      [] layout = "image-left" -> "grid grid-cols-2 gap-8 h-full"
      [] OTHER -> "flex flex-col h-full"

\* renderSlide reading the default background from the ThemeProvider's
\* current theme in place of the CustomTheme constant.
renderSlideShared(slide, index) ==
    [key |-> index,
     slideType |-> IF slide.type = "undefined" THEN "standard" ELSE slide.type,
     backgroundImage |->
        IF slide.background = "image" THEN "url(image)" ELSE "undefined",
     backgroundColor |->
        IF slide.background = "color" THEN "#0f172a"
        ELSE Prop(IF customTheme # <<>> THEN customTheme[1]
                  ELSE defaultThemes[currentTheme], "colors.background")[1],
     layoutClasses |->
        getLayoutClasses(IF slide.layout = "undefined" THEN "default" ELSE slide.layout),
     headline |-> slide.title,
     headlineClasses |->
        <<IF slide.type = "title" THEN "text-center" ELSE "",
          IF slide.background = "image" THEN "text-white drop-shadow-lg"
          ELSE "text-gray-900">>,
     body |-> slide.content]

\* The <section> renderSlide returns for a slide object.  type defaults to
\* 'standard' and layout to 'default'; the <h2> exists only for a truthy
\* title (headline = "undefined" when there is none); the body <div> always
\* exists and holds `content`.  `background` is "undefined", "color" (an
\* object with a color) or "image" (an object with an image).
renderSlide(slide, index) ==
    [key |-> index,
     slideType |-> IF slide.type = "undefined" THEN "standard" ELSE slide.type,
     backgroundImage |->
        IF slide.background = "image" THEN "url(image)" ELSE "undefined",
     backgroundColor |->
        IF slide.background = "color" THEN "#0f172a"
        ELSE Prop(CustomTheme, "colors.background")[1],
     layoutClasses |->
        getLayoutClasses(IF slide.layout = "undefined" THEN "default" ELSE slide.layout),
     headline |-> slide.title,
     headlineClasses |->
        <<IF slide.type = "title" THEN "text-center" ELSE "",
          IF slide.background = "image" THEN "text-white drop-shadow-lg"
          ELSE "text-gray-900">>,
     body |-> slide.content]

\* The `slides` prop: an array, or undefined (the default [] applies), or
\* null or a string (neither has a map method).  slides.map(renderSlide)
\* throws when destructuring a null element.
Presentation(deck) ==
    CASE deck.kind = "undefined" -> [status |-> "ok", sections |-> <<>>]
      [] deck.kind = "array" /\ \A i \in DOMAIN deck.items : ~deck.items[i].isNull ->
            [status |-> "ok",
             sections |-> [i \in DOMAIN deck.items |-> renderSlide(deck.items[i], i - 1)]]
      [] OTHER -> [status |-> "TypeError", sections |-> <<>>]

(***************************************************************************)
(* Input decks                                                             *)
(***************************************************************************)
\* A headline on the solid default background, nothing else.
PlainSlide == Slide("undefined", "Headline", "undefined", "undefined", "undefined")
TitleLayoutSlide == Slide("title", "Headline", "Subtitle", "image", "title")
SplitSlide == Slide("content", "Headline", "Body", "color", "split")
ImageLeftSlide == Slide("image", "Headline", "Body", "undefined", "image-left")
QuoteTypeSlide == Slide("quote", "undefined", "Quote", "color", "undefined")
\* A record with no field at all: neither headline nor body.
EmptySlide == Slide("undefined", "undefined", "undefined", "undefined", "undefined")

SlideInputs ==
    {PlainSlide, TitleLayoutSlide, SplitSlide, ImageLeftSlide, QuoteTypeSlide,
     EmptySlide, NullSlide}

Array(items) == [kind |-> "array", items |-> items]

\* Ten slides of which exactly 0, 2, 5, 7 and 9 (1, 3, 6, 8 and 10 here) are
\* plain.
ExampleDeck ==
    Array(<<PlainSlide, SplitSlide, PlainSlide, ImageLeftSlide, SplitSlide,
            PlainSlide, ImageLeftSlide, PlainSlide, SplitSlide, PlainSlide>>)

DeckInputs ==
    {Array(items) : items \in UNION {[1..n -> SlideInputs] : n \in 0..MaxSlides}}
    \cup {ExampleDeck}
    \cup {[kind |-> k, items |-> <<>>] : k \in {"undefined", "null", "string"}}

\* A theme object a caller can build: a registered theme completed with the
\* gradients and patterns that generateSlideStyles reads.
FullTheme ==
    [name |-> Lit("Full"),
     objs |-> {"colors", "fonts", "gradient", "gradients", "patterns"},
     vals |-> modern_gradient.vals @@ ("patterns.dots" :> Lit("radial-gradient(dots)"))]

\* The same object without colors.accent.
NoAccentTheme ==
    [name |-> Lit("NoAccent"),
     objs |-> FullTheme.objs,
     vals |-> [path \in DOMAIN FullTheme.vals \ {"colors.accent"} |-> FullTheme.vals[path]]]

\* An object with gradients but an empty patterns object.
NoDotsTheme ==
    [name |-> Lit("NoDots"),
     objs |-> FullTheme.objs,
     vals |-> [path \in DOMAIN FullTheme.vals \ {"patterns.dots"} |-> FullTheme.vals[path]]]

ThemeConfigs == {FullTheme, NoAccentTheme, NoDotsTheme}

Pending == [status |-> "pending", sections |-> <<>>]

PendingThemed ==
    [status |-> "pending", slides |-> <<>>, theme |-> Undefined,
     styles |-> TypeError.props]

(***************************************************************************)
(* context/theme-context.jsx: ThemeProvider                                *)
(***************************************************************************)
\* The object a missing theme reads as: every lookup in it fails.
NoTheme == [name |-> Undefined, objs |-> {}, vals |-> [path \in {} |-> Undefined]]

\* const theme = customTheme || defaultThemes[currentTheme] ||
\*               defaultThemes.corporate_blue
ProviderTheme ==
    IF customTheme # <<>> THEN customTheme[1]
    ELSE IF currentTheme \in defaultThemeIds THEN defaultThemes[currentTheme]
    ELSE defaultThemes["corporate_blue"]

\* Theme ids a caller passes: the registered ones and 'modern', the default
\* of PresentationForm and of the useTheme hook, which is no key of
\* defaultThemes.
ThemeIdInputs == defaultThemeIds \cup {"modern"}

\* Arguments of setTheme: theme objects, and values that are no object.
SetThemeInputs ==
    {[kind |-> "object", theme |-> t] : t \in ThemeConfigs}
    \cup {[kind |-> k, theme |-> NoTheme] : k \in {"null", "string", "undefined"}}

\* switchTheme with its check of the id left out.
switchThemeUnchecked(themeId) ==
    /\ currentTheme' = themeId
    /\ customTheme' = <<>>
    /\ UNCHANGED <<hookCurrentTheme, hookCustomTheme, presTheme, styles>>
    /\ UNCHANGED deckVars
    /\ UNCHANGED appVars
    /\ UNCHANGED <<previewVars, submitVars>>

\* if (defaultThemes[themeId]) { setCurrentTheme(themeId);
\*                               setCustomTheme(null); }
switchTheme(themeId) ==
    /\ IF themeId \in defaultThemeIds
       THEN currentTheme' = themeId /\ customTheme' = <<>>
       ELSE UNCHANGED <<currentTheme, customTheme>>
    /\ UNCHANGED <<hookCurrentTheme, hookCustomTheme, presTheme, styles>>
    /\ UNCHANGED deckVars
    /\ UNCHANGED appVars
    /\ UNCHANGED <<previewVars, submitVars>>

setTheme(themeConfig) ==
    /\ IF themeConfig.kind = "object"
       THEN customTheme' = <<themeConfig.theme>>
       ELSE UNCHANGED customTheme
    /\ UNCHANGED <<currentTheme, hookCurrentTheme, hookCustomTheme, presTheme, styles>>
    /\ UNCHANGED deckVars
    /\ UNCHANGED appVars
    /\ UNCHANGED <<previewVars, submitVars>>

(***************************************************************************)
(* hooks/use-theme.js: useTheme                                            *)
(***************************************************************************)
\* const theme = customTheme || defaultThemes[currentTheme]; undefined when
\* currentTheme is no key of defaultThemes.
HookThemeDefined == hookCustomTheme # <<>> \/ hookCurrentTheme \in defaultThemeIds

HookTheme ==
    IF hookCustomTheme # <<>> THEN hookCustomTheme[1]
    ELSE IF hookCurrentTheme \in defaultThemeIds THEN defaultThemes[hookCurrentTheme]
    ELSE NoTheme

\* The sub-object a path belongs to.
ObjOf(path) ==
    CASE path \in {"colors.primary", "colors.secondary", "colors.accent",
                   "colors.background", "colors.background_end", "colors.text",
                   "colors.text_secondary", "colors.text_light"} -> "colors"
      [] path \in {"fonts.title", "fonts.content", "fonts.heading", "fonts.body",
                   "fonts.sizes"} -> "fonts"
      [] path \in {"gradient.angle"} -> "gradient"
      [] path \in {"gradients.primary", "gradients.secondary", "gradients.accent"} ->
            "gradients"
      [] path \in {"patterns.dots"} -> "patterns"
      [] OTHER -> "layouts"

\* {...base, ...updates}: a shallow merge, so a sub-object of `updates`
\* replaces the whole sub-object of `base`.
Spread(base, updates) ==
    [name |-> IF updates.name # Undefined THEN updates.name ELSE base.name,
     objs |-> base.objs \cup updates.objs,
     vals |-> updates.vals @@
              [path \in {q \in DOMAIN base.vals : ObjOf(q) \notin updates.objs} |->
                  base.vals[path]]]

\* Arguments of updateCustomTheme: { colors: { primary } }, { gradients,
\* patterns } and { name }.
ThemeUpdates ==
    {[name |-> Undefined, objs |-> {"colors"},
      vals |-> ("colors.primary" :> Lit("#ff0000"))],
     [name |-> Undefined, objs |-> {"gradients", "patterns"},
      vals |-> ("gradients.primary" :> Gradient("90", Lit("#ff0000"), Lit("#00ff00"))) @@
               ("gradients.secondary" :> Gradient("90", Lit("#00ff00"), Lit("#0000ff"))) @@
               ("patterns.dots" :> Lit("radial-gradient(dots)"))],
     [name |-> Lit("Mine"), objs |-> {}, vals |-> NoTheme.vals]}

hookSwitchTheme(themeName) ==
    /\ IF themeName \in defaultThemeIds
       THEN hookCurrentTheme' = themeName /\ hookCustomTheme' = <<>>
       ELSE UNCHANGED <<hookCurrentTheme, hookCustomTheme>>
    /\ UNCHANGED <<currentTheme, customTheme, presTheme, styles>>
    /\ UNCHANGED deckVars
    /\ UNCHANGED appVars
    /\ UNCHANGED <<previewVars, submitVars>>

\* setCustomTheme(prev => ({...(prev || defaultThemes[currentTheme]),
\*                          ...themeUpdates}))
updateCustomTheme(themeUpdates) ==
    /\ hookCustomTheme' = <<Spread(HookTheme, themeUpdates)>>
    /\ UNCHANGED <<currentTheme, customTheme, hookCurrentTheme, presTheme, styles>>
    /\ UNCHANGED deckVars
    /\ UNCHANGED appVars
    /\ UNCHANGED <<previewVars, submitVars>>

(***************************************************************************)
(* contexts/PresentationThemeContext.jsx: PresentationThemeProvider        *)
(***************************************************************************)
\* setTheme(themeName): only a key of `themes` replaces the current theme.
presSetTheme(themeName) ==
    /\ IF themeName \in themeNames
       THEN presTheme' = themeName
       ELSE UNCHANGED presTheme
    /\ UNCHANGED <<currentTheme, customTheme, hookCurrentTheme, hookCustomTheme, styles>>
    /\ UNCHANGED deckVars
    /\ UNCHANGED appVars
    /\ UNCHANGED <<previewVars, submitVars>>

(***************************************************************************)
(* Slide components: TitleSlide and QuoteSlide read the theme of           *)
(* PresentationThemeContext.                                               *)
(***************************************************************************)
\* background || `linear-gradient(135deg, ${primary}, ${secondary})`
TitleSlide(theme, background) ==
    [status |-> IF {"colors", "fonts"} \subseteq theme.objs THEN "ok" ELSE "TypeError",
     props |->
        IF {"colors", "fonts"} \subseteq theme.objs
        THEN ("background" :>
                OrElse(background, Gradient("135", Prop(theme, "colors.primary"),
                                            Prop(theme, "colors.secondary")))) @@
             ("h.fontFamily" :> Prop(theme, "fonts.heading")) @@
             ("fontFamily" :> Prop(theme, "fonts.body"))
        ELSE TypeError.props]

\* background || `linear-gradient(135deg, ${secondary}, ${accent})`
QuoteSlide(theme, background) ==
    [status |-> IF {"colors", "fonts"} \subseteq theme.objs THEN "ok" ELSE "TypeError",
     props |->
        IF {"colors", "fonts"} \subseteq theme.objs
        THEN ("background" :>
                OrElse(background, Gradient("135", Prop(theme, "colors.secondary"),
                                            Prop(theme, "colors.accent")))) @@
             ("h.fontFamily" :> Prop(theme, "fonts.heading")) @@
             ("fontFamily" :> Prop(theme, "fonts.body"))
        ELSE TypeError.props]

(***************************************************************************)
(* config/theme.jsx: getThemeVariables, the CSS-variable helper            *)
(***************************************************************************)
\* theme.gradients?.primary || `linear-gradient(${theme.gradient.angle}deg,
\* ${theme.colors.primary}, ${theme.colors.secondary})`, and likewise the
\* secondary and accent gradients; theme.gradient.angle is read whether or
\* not theme.gradients is present.
getThemeVariables(theme) ==
    [status |-> IF {"colors", "fonts", "gradient"} \subseteq theme.objs
                THEN "ok" ELSE "TypeError",
     props |->
        IF {"colors", "fonts", "gradient"} \subseteq theme.objs
        THEN ("--theme-gradient-angle" :> <<Prop(theme, "gradient.angle")[1], "deg">>) @@
             ("--theme-gradient-primary" :>
                OrElse(Prop(theme, "gradients.primary"),
                       Gradient(Prop(theme, "gradient.angle")[1],
                                Prop(theme, "colors.primary"),
                                Prop(theme, "colors.secondary")))) @@
             ("--theme-gradient-secondary" :>
                OrElse(Prop(theme, "gradients.secondary"),
                       Gradient(Prop(theme, "gradient.angle")[1],
                                Prop(theme, "colors.secondary"),
                                Prop(theme, "colors.accent")))) @@
             ("--theme-gradient-accent" :>
                OrElse(Prop(theme, "gradients.accent"),
                       Gradient(Prop(theme, "gradient.angle")[1],
                                Prop(theme, "colors.accent"),
                                Prop(theme, "colors.primary"))))
        ELSE TypeError.props]

(***************************************************************************)
(* Calls of the pure functions                                             *)
(***************************************************************************)
NoStyles ==
    [by |-> "none", theme |-> NoTheme, type |-> "undefined",
     status |-> "pending", props |-> TypeError.props]

Resolved(by, theme, type, result) ==
    [by |-> by, theme |-> theme, type |-> type,
     status |-> result.status, props |-> result.props]

\* Slide types a caller passes: the keys of slideTypes, a type that is no
\* key ('standard', the default of renderSlide) and undefined.
SlideTypeInputs ==
    {"title", "section", "content", "image", "quote", "standard", "undefined"}

CallGenerateSlideStyles(theme) ==
    /\ \E type \in SlideTypeInputs :
          styles' = Resolved("generateSlideStyles", theme, type,
                             generateSlideStyles(theme, type))
    /\ UNCHANGED <<currentTheme, customTheme, hookCurrentTheme, hookCustomTheme, presTheme>>
    /\ UNCHANGED deckVars
    /\ UNCHANGED appVars
    /\ UNCHANGED <<previewVars, submitVars>>

CallTitleSlide ==
    /\ \E background \in {Undefined, Lit("#000000")} :
          styles' = Resolved("TitleSlide", themes[presTheme], "title",
                             TitleSlide(themes[presTheme], background))
    /\ UNCHANGED <<currentTheme, customTheme, hookCurrentTheme, hookCustomTheme, presTheme>>
    /\ UNCHANGED deckVars
    /\ UNCHANGED appVars
    /\ UNCHANGED <<previewVars, submitVars>>

CallQuoteSlide ==
    /\ \E background \in {Undefined, Lit("#000000")} :
          styles' = Resolved("QuoteSlide", themes[presTheme], "quote",
                             QuoteSlide(themes[presTheme], background))
    /\ UNCHANGED <<currentTheme, customTheme, hookCurrentTheme, hookCustomTheme, presTheme>>
    /\ UNCHANGED deckVars
    /\ UNCHANGED appVars
    /\ UNCHANGED <<previewVars, submitVars>>

CallGetThemeVariables(theme) ==
    /\ styles' = Resolved("getThemeVariables", theme, "variables",
                          getThemeVariables(theme))
    /\ UNCHANGED <<currentTheme, customTheme, hookCurrentTheme, hookCustomTheme, presTheme>>
    /\ UNCHANGED deckVars
    /\ UNCHANGED appVars
    /\ UNCHANGED <<previewVars, submitVars>>

CallPresentation ==
    /\ rendered = Pending
    /\ rendered' = Presentation(slides)
    /\ UNCHANGED <<slides, themed>>
    /\ UNCHANGED themeVars
    /\ UNCHANGED appVars
    /\ UNCHANGED <<previewVars, submitVars>>

CallApplyThemeToPresentation ==
    /\ themed = PendingThemed
    /\ \E theme \in DefaultThemeSet \cup ThemeConfigs :
          themed' = applyThemeToPresentation(slides, theme)
    /\ UNCHANGED <<slides, rendered>>
    /\ UNCHANGED themeVars
    /\ UNCHANGED appVars
    /\ UNCHANGED <<previewVars, submitVars>>

(***************************************************************************)
(* The socket-driven App (part_002; App_simple.jsx is the same component   *)
(* without the theme selection)                                            *)
(***************************************************************************)
MaxLogs == 4

MaxPosts == 2

\* String.prototype.trim over the descriptions tried here.
Trim(s) ==
    CASE s = "  " -> ""
      [] s = " ai " -> "ai"
      [] OTHER -> s

PromptInputs == {"", "  ", "ai", " ai "}

\* What parseInt(e.target.value) gives: <<>> is NaN, <<n>> the integer n.
ParsedInputs == {<<>>, <<0>>, <<-1>>, <<1>>, <<20>>, <<21>>}

\* The slide counts the state can hold: the initial 5 and every typed value
\* that is a non-zero integer.
NumSlidesValues == {5} \cup {p[1] : p \in {q \in ParsedInputs : q # <<>> /\ q[1] # 0}}

\* The log entries, named by their message, and the type addLog files them
\* under.
LogType(entry) ==
    CASE entry \in {"Please enter a presentation description",
                    "Number of slides must be between 1 and 20"} -> "warning"
      [] entry \in {"Starting presentation generation...", "progress_update"} -> "info"
      [] entry \in {"Connected to PPT Generator", "Presentation started with ID",
                    "Presentation generated successfully!"} -> "success"
      [] OTHER -> "error"

addLog(message) == logs' = Append(logs, message)

CanLog == Len(logs) < MaxLogs

\* onChange of the description; the textarea is disabled while generating.
setPrompt(value) ==
    /\ ~isGenerating
    /\ prompt' = value
    /\ UNCHANGED <<numSlides, isGenerating, currentProject, logs, requests,
                   unanswered, joined>>
    /\ UNCHANGED <<deckVars, themeVars>>
    /\ UNCHANGED <<previewVars, submitVars>>
    /\ UNCHANGED serverVars

\* onChange of the slide count: setNumSlides(parseInt(e.target.value) || 5);
\* the input is disabled while generating.
setNumSlides(parsed) ==
    /\ ~isGenerating
    /\ numSlides' = IF parsed = <<>> \/ parsed[1] = 0 THEN 5 ELSE parsed[1]
    /\ UNCHANGED <<prompt, isGenerating, currentProject, logs, requests,
                   unanswered, joined>>
    /\ UNCHANGED <<deckVars, themeVars>>
    /\ UNCHANGED <<previewVars, submitVars>>
    /\ UNCHANGED serverVars

\* The Generate button is disabled in these states.
GenerateDisabled == isGenerating \/ Trim(prompt) = ""

\* handleGenerate with the slide-count check left out.
handleGenerateUnchecked ==
    /\ CanLog
    /\ IF Trim(prompt) = ""
       THEN /\ addLog("Please enter a presentation description")
            /\ UNCHANGED <<isGenerating, currentProject, requests, unanswered>>
       ELSE /\ Len(requests) < MaxPosts
            /\ isGenerating' = TRUE
            /\ currentProject' = <<>>
            /\ addLog("Starting presentation generation...")
            /\ requests' = Append(requests, [prompt |-> Trim(prompt),
                                             num_slides |-> numSlides])
            /\ unanswered' = unanswered \cup {Len(requests) + 1}
    /\ UNCHANGED <<prompt, numSlides, joined>>
    /\ UNCHANGED <<deckVars, themeVars>>
    /\ UNCHANGED <<previewVars, submitVars>>
    /\ UNCHANGED serverVars

\* handleGenerate without setCurrentProject(null).
handleGenerateKeepsProject ==
    /\ CanLog
    /\ IF Trim(prompt) = ""
       THEN /\ addLog("Please enter a presentation description")
            /\ UNCHANGED <<isGenerating, currentProject, requests, unanswered>>
       ELSE IF numSlides < 1 \/ numSlides > 20
       THEN /\ addLog("Number of slides must be between 1 and 20")
            /\ UNCHANGED <<isGenerating, currentProject, requests, unanswered>>
       ELSE /\ Len(requests) < MaxPosts
            /\ isGenerating' = TRUE
            /\ UNCHANGED currentProject
            /\ addLog("Starting presentation generation...")
            /\ requests' = Append(requests, [prompt |-> Trim(prompt),
                                             num_slides |-> numSlides])
            /\ unanswered' = unanswered \cup {Len(requests) + 1}
    /\ UNCHANGED <<prompt, numSlides, joined>>
    /\ UNCHANGED <<deckVars, themeVars>>
    /\ UNCHANGED <<previewVars, submitVars>>
    /\ UNCHANGED serverVars

\* handleGenerate, up to its await: the two checks, then the POST.
handleGenerate ==
    /\ CanLog
    /\ IF Trim(prompt) = ""
       THEN /\ addLog("Please enter a presentation description")
            /\ UNCHANGED <<isGenerating, currentProject, requests, unanswered>>
       ELSE IF numSlides < 1 \/ numSlides > 20
       THEN /\ addLog("Number of slides must be between 1 and 20")
            /\ UNCHANGED <<isGenerating, currentProject, requests, unanswered>>
       ELSE /\ Len(requests) < MaxPosts
            /\ isGenerating' = TRUE
            /\ currentProject' = <<>>
            /\ addLog("Starting presentation generation...")
            /\ requests' = Append(requests, [prompt |-> Trim(prompt),
                                             num_slides |-> numSlides])
            /\ unanswered' = unanswered \cup {Len(requests) + 1}
    /\ UNCHANGED <<prompt, numSlides, joined>>
    /\ UNCHANGED <<deckVars, themeVars>>
    /\ UNCHANGED <<previewVars, submitVars>>
    /\ UNCHANGED serverVars

\* The Download button is rendered only in these states: its condition
\* currentProject?.result?.success needs a project.
DownloadOffered == currentProject # <<>>

\* handleGenerate after its await, the POST answered: with a project_id the
\* socket asks to join the project's room, without one nothing happens.  The
\* server answers with a project_id once it has started the job.
PostResolved(i, hasProjectId) ==
    /\ i \in unanswered
    /\ hasProjectId <=> jobs[i] # "none"
    /\ unanswered' = unanswered \ {i}
    /\ IF hasProjectId
       THEN /\ CanLog
            /\ addLog("Presentation started with ID")
            /\ joined' = joined \cup {i}
       ELSE UNCHANGED <<logs, joined>>
    /\ UNCHANGED <<prompt, numSlides, isGenerating, currentProject, requests>>
    /\ UNCHANGED <<deckVars, themeVars>>
    /\ UNCHANGED <<previewVars, submitVars>>
    /\ UNCHANGED serverVars

\* handleGenerate after its await, the POST failed: the catch block.
PostRejected(i) ==
    /\ i \in unanswered
    /\ CanLog
    /\ unanswered' = unanswered \ {i}
    /\ isGenerating' = FALSE
    /\ addLog("Failed to start generation")
    /\ UNCHANGED <<prompt, numSlides, currentProject, requests, joined>>
    /\ UNCHANGED <<deckVars, themeVars>>
    /\ UNCHANGED <<previewVars, submitVars>>
    /\ UNCHANGED serverVars

\* The server, as the README describes it: POST /api/generate starts the
\* generation, join_project puts the client into the project's room, and
\* project_completed / project_failed go to the room when the job ends: to
\* the client if it is in the room by then, to nobody otherwise.
ServerStart(i) ==
    /\ i \in unanswered
    /\ jobs[i] = "none"
    /\ jobs' = [jobs EXCEPT ![i] = "running"]
    /\ UNCHANGED <<room, events>>
    /\ UNCHANGED clientVars
    /\ UNCHANGED <<deckVars, themeVars>>
    /\ UNCHANGED <<previewVars, submitVars>>

ServerJoin(i) ==
    /\ i \in joined \ room
    /\ room' = room \cup {i}
    /\ UNCHANGED <<jobs, events>>
    /\ UNCHANGED clientVars
    /\ UNCHANGED <<deckVars, themeVars>>
    /\ UNCHANGED <<previewVars, submitVars>>

ServerFinish(i, outcome) ==
    /\ jobs[i] = "running"
    /\ jobs' = [jobs EXCEPT ![i] = "done"]
    /\ events' = [events EXCEPT ![i] = IF i \in room THEN outcome ELSE "dropped"]
    /\ UNCHANGED room
    /\ UNCHANGED clientVars
    /\ UNCHANGED <<deckVars, themeVars>>
    /\ UNCHANGED <<previewVars, submitVars>>

\* The socket handlers.  None of them looks at the project the event is
\* about.
onConnect ==
    /\ CanLog
    /\ addLog("Connected to PPT Generator")
    /\ UNCHANGED <<prompt, numSlides, isGenerating, currentProject, requests,
                   unanswered, joined>>
    /\ UNCHANGED <<deckVars, themeVars>>
    /\ UNCHANGED <<previewVars, submitVars>>
    /\ UNCHANGED serverVars

\* progress_update reaches the client while a job of a room it is in runs.
onProgressUpdate ==
    /\ \E i \in room : jobs[i] = "running"
    /\ CanLog
    /\ addLog("progress_update")
    /\ UNCHANGED <<prompt, numSlides, isGenerating, currentProject, requests,
                   unanswered, joined>>
    /\ UNCHANGED <<deckVars, themeVars>>
    /\ UNCHANGED <<previewVars, submitVars>>
    /\ UNCHANGED serverVars

onProjectCompleted ==
    /\ CanLog
    /\ \E i \in DOMAIN events :
          /\ events[i] = "project_completed"
          /\ events' = [events EXCEPT ![i] = "handled"]
    /\ isGenerating' = FALSE
    /\ currentProject' = <<"project">>
    /\ addLog("Presentation generated successfully!")
    /\ UNCHANGED <<prompt, numSlides, requests, unanswered, joined>>
    /\ UNCHANGED <<deckVars, themeVars>>
    /\ UNCHANGED <<previewVars, submitVars>>
    /\ UNCHANGED <<jobs, room>>

onProjectFailed ==
    /\ CanLog
    /\ \E i \in DOMAIN events :
          /\ events[i] = "project_failed"
          /\ events' = [events EXCEPT ![i] = "handled"]
    /\ isGenerating' = FALSE
    /\ addLog("Presentation generation failed")
    /\ UNCHANGED <<prompt, numSlides, currentProject, requests, unanswered, joined>>
    /\ UNCHANGED <<deckVars, themeVars>>
    /\ UNCHANGED <<previewVars, submitVars>>
    /\ UNCHANGED <<jobs, room>>

AppIdle ==
    /\ prompt = ""
    /\ numSlides = 5
    /\ isGenerating = FALSE
    /\ currentProject = <<>>
    /\ logs = <<>>
    /\ requests = <<>>
    /\ unanswered = {}
    /\ joined = {}
    /\ jobs = [i \in 1..MaxPosts |-> "none"]
    /\ room = {}
    /\ events = [i \in 1..MaxPosts |-> "none"]

(***************************************************************************)
(* components/PresentationPreview.jsx                                      *)
(***************************************************************************)
\* The presentations the server holds, and the number of slides of each:
\* a long one and a one-slide one.
PresentationIds == {"long", "short"}

SlidesOf(id) == IF id = "long" THEN MaxSlides ELSE 1

\* data.presentation of a fetch that succeeded.
Loaded(id) == <<[id |-> id, slides |-> SlidesOf(id)]>>

\* presentation.slides.length of a loaded presentation.
SlideCount == presentation[1].slides

\* What the component renders: the early returns for isLoading, error and
\* !presentation come before the slide, its buttons and its dots.
View ==
    CASE isLoading -> "loading"
      [] error # <<>> -> "error"
      [] presentation = <<>> -> "none"
      [] OTHER -> "slides"

previewFrame ==
    /\ UNCHANGED <<deckVars, themeVars>>
    /\ UNCHANGED appVars
    /\ UNCHANGED submitVars

\* The parent renders the component with another presentationId; the fetch
\* effect runs again when the id is truthy.  No state is reset.
changePresentationId(id) ==
    /\ ~raised
    /\ id # presentationId
    /\ presentationId' = id
    /\ fetching' = IF id = <<>> THEN fetching ELSE fetching \cup {id[1]}
    /\ UNCHANGED <<presentation, currentSlideIndex, isLoading, error, raised>>
    /\ previewFrame

\* fetchPresentation after its awaits: response.ok and a body.
fetchResolved(id) ==
    /\ ~raised
    /\ id \in fetching
    /\ fetching' = fetching \ {id}
    /\ presentation' = Loaded(id)
    /\ isLoading' = FALSE
    /\ UNCHANGED <<presentationId, currentSlideIndex, error, raised>>
    /\ previewFrame

\* fetchPresentation: the catch block.
fetchRejected(id) ==
    /\ ~raised
    /\ id \in fetching
    /\ fetching' = fetching \ {id}
    /\ error' = <<"Failed to fetch presentation">>
    /\ isLoading' = FALSE
    /\ UNCHANGED <<presentationId, presentation, currentSlideIndex, raised>>
    /\ previewFrame

\* setCurrentSlideIndex(prev => prev > 0 ? prev - 1
\*                                        : presentation.slides.length - 1);
\* reading .slides of a null presentation throws.
handlePrevious ==
    /\ ~raised
    /\ IF currentSlideIndex > 0
       THEN currentSlideIndex' = currentSlideIndex - 1 /\ UNCHANGED raised
       ELSE IF presentation = <<>>
       THEN raised' = TRUE /\ UNCHANGED currentSlideIndex
       ELSE currentSlideIndex' = SlideCount - 1 /\ UNCHANGED raised
    /\ UNCHANGED <<presentationId, presentation, isLoading, error, fetching>>
    /\ previewFrame

\* setCurrentSlideIndex(prev => prev < presentation.slides.length - 1
\*                                ? prev + 1 : 0)
handleNext ==
    /\ ~raised
    /\ IF presentation = <<>>
       THEN raised' = TRUE /\ UNCHANGED currentSlideIndex
       ELSE /\ currentSlideIndex' =
                  IF currentSlideIndex < SlideCount - 1 THEN currentSlideIndex + 1 ELSE 0
            /\ UNCHANGED raised
    /\ UNCHANGED <<presentationId, presentation, isLoading, error, fetching>>
    /\ previewFrame

\* The buttons exist only next to a slide; each is disabled at its end of
\* the deck.
clickPrevious ==
    /\ View = "slides"
    /\ currentSlideIndex # 0
    /\ handlePrevious

clickNext ==
    /\ View = "slides"
    /\ currentSlideIndex # SlideCount - 1
    /\ handleNext

\* A progress dot: one per slide.
selectDot(index) ==
    /\ ~raised
    /\ View = "slides"
    /\ index \in 0..(SlideCount - 1)
    /\ currentSlideIndex' = index
    /\ UNCHANGED <<presentationId, presentation, isLoading, error, fetching, raised>>
    /\ previewFrame

\* The keydown listener on window, registered from the mount on.
handleKeyPress(key) ==
    CASE key = "ArrowLeft" -> handlePrevious
      [] key = "ArrowRight" -> handleNext
      [] OTHER -> /\ ~raised
                  /\ UNCHANGED previewVars
                  /\ previewFrame

KeyInputs == {"ArrowLeft", "ArrowRight", "Enter"}

PreviewIdle ==
    /\ presentationId = <<>>
    /\ presentation = <<>>
    /\ currentSlideIndex = 0
    /\ isLoading = TRUE
    /\ error = <<>>
    /\ fetching = {}
    /\ raised = FALSE

\* The state after the mount: the fetch is under way when the component was
\* given an id.
PreviewMounted ==
    /\ presentationId \in {<<>>} \cup {<<id>> : id \in PresentationIds}
    /\ presentation = <<>>
    /\ currentSlideIndex = 0
    /\ isLoading = TRUE
    /\ error = <<>>
    /\ fetching = {presentationId[i] : i \in DOMAIN presentationId}
    /\ raised = FALSE

(***************************************************************************)
(* ppt-generator-ui/src/App.jsx: handleSubmit and connectToSocket          *)
(***************************************************************************)
MaxSubmits == 4

MaxUiLogs == 5

InFlight == {"creating", "generating"}

Returned == {"create-failed", "create-refused", "generate-failed", "generated"}

uiCanLog == Len(uiLogs) < MaxUiLogs

uiAddLog(message) == uiLogs' = Append(uiLogs, message)

submitFrame ==
    /\ UNCHANGED <<deckVars, themeVars>>
    /\ UNCHANGED appVars
    /\ UNCHANGED previewVars

\* handleSubmit up to its first await.  The form's submit button is disabled
\* while isGenerating (Presentation.jsx:278).
handleSubmit ==
    /\ ~uiIsGenerating
    /\ \E i \in 1..MaxSubmits :
          /\ calls[i] = "idle"
          /\ \A j \in 1..(i - 1) : calls[j] # "idle"
          /\ calls' = [calls EXCEPT ![i] = "creating"]
    /\ uiIsGenerating' = TRUE
    /\ UNCHANGED <<uiCurrentProject, uiLogs, sockets>>
    /\ submitFrame

\* The create POST failed: catch, then finally.
createRejected(i) ==
    /\ calls[i] = "creating"
    /\ uiCanLog
    /\ uiAddLog("Failed to generate presentation")
    /\ uiIsGenerating' = FALSE
    /\ calls' = [calls EXCEPT ![i] = "create-failed"]
    /\ UNCHANGED <<uiCurrentProject, sockets>>
    /\ submitFrame

\* The create POST answered.  On status 'success': setCurrentProject,
\* addLog, connectToSocket (a new connection; the function it returns to
\* close it is dropped), then the generate POST.  Otherwise straight to
\* finally.
createResolved(i, success) ==
    /\ calls[i] = "creating"
    /\ IF success
       THEN /\ uiCanLog
            /\ uiCurrentProject' = <<i>>
            /\ uiAddLog("Created new presentation project")
            /\ sockets' = [sockets EXCEPT ![i] = "connecting"]
            /\ calls' = [calls EXCEPT ![i] = "generating"]
            /\ UNCHANGED uiIsGenerating
       ELSE /\ uiIsGenerating' = FALSE
            /\ calls' = [calls EXCEPT ![i] = "create-refused"]
            /\ UNCHANGED <<uiCurrentProject, uiLogs, sockets>>
    /\ submitFrame

\* The generate POST failed, with the finally block left out.
generateRejectedNoFinally(i) ==
    /\ calls[i] = "generating"
    /\ uiCanLog
    /\ uiAddLog("Failed to generate presentation")
    /\ calls' = [calls EXCEPT ![i] = "generate-failed"]
    /\ UNCHANGED <<uiIsGenerating, uiCurrentProject, sockets>>
    /\ submitFrame

\* The generate POST failed: catch, then finally.
generateRejected(i) ==
    /\ calls[i] = "generating"
    /\ uiCanLog
    /\ uiAddLog("Failed to generate presentation")
    /\ uiIsGenerating' = FALSE
    /\ calls' = [calls EXCEPT ![i] = "generate-failed"]
    /\ UNCHANGED <<uiCurrentProject, sockets>>
    /\ submitFrame

\* The generate POST answered, then finally.
generateResolved(i, success) ==
    /\ calls[i] = "generating"
    /\ IF success
       THEN uiCanLog /\ uiAddLog("Generation completed successfully")
       ELSE UNCHANGED uiLogs
    /\ uiIsGenerating' = FALSE
    /\ calls' = [calls EXCEPT ![i] = "generated"]
    /\ UNCHANGED <<uiCurrentProject, sockets>>
    /\ submitFrame

\* The handlers connectToSocket registers on the connection of call i.
socketConnect(i) ==
    /\ sockets[i] = "connecting"
    /\ uiCanLog
    /\ uiAddLog("Connected to server")
    /\ sockets' = [sockets EXCEPT ![i] = "connected"]
    /\ UNCHANGED <<uiIsGenerating, uiCurrentProject, calls>>
    /\ submitFrame

socketStatusUpdate(i) ==
    /\ sockets[i] = "connected"
    /\ uiCanLog
    /\ uiAddLog("status_update")
    /\ UNCHANGED <<uiIsGenerating, uiCurrentProject, sockets, calls>>
    /\ submitFrame

\* The connection is lost: the client reconnects by itself, unless the
\* server closed it.  The client never closes a connection.
socketDisconnect(i, reconnects) ==
    /\ sockets[i] = "connected"
    /\ uiCanLog
    /\ uiAddLog("Disconnected from server")
    /\ sockets' = [sockets EXCEPT ![i] = IF reconnects THEN "connecting" ELSE "closed"]
    /\ UNCHANGED <<uiIsGenerating, uiCurrentProject, calls>>
    /\ submitFrame

OpenSockets == {i \in 1..MaxSubmits : sockets[i] \in {"connecting", "connected"}}

SubmitIdle ==
    /\ uiIsGenerating = FALSE
    /\ uiCurrentProject = <<>>
    /\ uiLogs = <<>>
    /\ sockets = [i \in 1..MaxSubmits |-> "none"]
    /\ calls = [i \in 1..MaxSubmits |-> "idle"]

(***************************************************************************)
(* Specifications                                                          *)
(***************************************************************************)
ThemeIdle ==
    /\ currentTheme = "corporate_blue"
    /\ customTheme = <<>>
    /\ hookCurrentTheme = "modern"
    /\ hookCustomTheme = <<>>
    /\ presTheme = "modern"
    /\ styles = NoStyles

DeckIdle ==
    /\ slides = Array(<<>>)
    /\ rendered = Pending
    /\ themed = PendingThemed

\* The deck pipeline: a deck is handed to Presentation and to
\* applyThemeToPresentation.
DeckInit ==
    /\ slides \in DeckInputs
    /\ rendered = Pending
    /\ themed = PendingThemed
    /\ ThemeIdle
    /\ AppIdle
    /\ PreviewIdle
    /\ SubmitIdle

DeckNext ==
    \/ CallPresentation
    \/ CallApplyThemeToPresentation

SpecDeck == DeckInit /\ [][DeckNext]_vars

\* ThemeProvider and PresentationThemeProvider, and the style resolution
\* that reads a registered theme or the provider's current theme.
ThemeInit == ThemeIdle /\ DeckIdle /\ AppIdle /\ PreviewIdle /\ SubmitIdle

ThemeNext ==
    \/ \E themeId \in ThemeIdInputs : switchTheme(themeId)
    \/ \E themeConfig \in SetThemeInputs : setTheme(themeConfig)
    \/ \E themeName \in themeNames \cup {"corporate_blue"} : presSetTheme(themeName)
    \/ \E theme \in DefaultThemeSet \cup {ProviderTheme} : CallGenerateSlideStyles(theme)
    \/ \E theme \in DefaultThemeSet \cup {ProviderTheme} : CallGetThemeVariables(theme)
    \/ CallTitleSlide
    \/ CallQuoteSlide

SpecTheme == ThemeInit /\ [][ThemeNext]_vars

\* The useTheme hook of hooks/use-theme.js, constructed with the default
\* argument or with a caller's theme id, and the style resolution that reads
\* its theme.
HookInit ==
    /\ currentTheme = "corporate_blue"
    /\ customTheme = <<>>
    /\ hookCurrentTheme \in ThemeIdInputs
    /\ hookCustomTheme = <<>>
    /\ presTheme = "modern"
    /\ styles = NoStyles
    /\ DeckIdle
    /\ AppIdle
    /\ PreviewIdle
    /\ SubmitIdle

HookNext ==
    \/ \E themeName \in ThemeIdInputs : hookSwitchTheme(themeName)
    \/ \E themeUpdates \in ThemeUpdates : updateCustomTheme(themeUpdates)
    \/ CallGenerateSlideStyles(HookTheme)

SpecHook == HookInit /\ [][HookNext]_vars

\* Runs of the deck functions interleaved with theme switches of the
\* ThemeProvider: decks of one or two slides, rendered by Presentation and
\* themed by applyThemeToPresentation with a theme of the caller's choice.
RunDecks == {deck \in DeckInputs : deck.kind = "array" /\ Len(deck.items) \in {1, 2}}

RunsInit ==
    /\ slides \in RunDecks
    /\ rendered = Pending
    /\ themed = PendingThemed
    /\ ThemeIdle
    /\ AppIdle
    /\ PreviewIdle
    /\ SubmitIdle

RunsNext ==
    \/ CallPresentation
    \/ CallApplyThemeToPresentation
    \/ \E themeId \in ThemeIdInputs : switchTheme(themeId)
    \/ \E themeConfig \in SetThemeInputs : setTheme(themeConfig)

SpecRuns == RunsInit /\ [][RunsNext]_vars

\* The App component: the form, handleGenerate and the socket handlers.
\* handleGenerate is taken as the function it is, callable in any state.
AppInit == AppIdle /\ ThemeIdle /\ DeckIdle /\ PreviewIdle /\ SubmitIdle

AppNext ==
    \/ \E value \in PromptInputs : setPrompt(value)
    \/ \E parsed \in ParsedInputs : setNumSlides(parsed)
    \/ handleGenerate
    \/ \E i \in 1..MaxPosts, hasProjectId \in BOOLEAN : PostResolved(i, hasProjectId)
    \/ \E i \in 1..MaxPosts : PostRejected(i)
    \/ \E i \in 1..MaxPosts : ServerStart(i)
    \/ \E i \in 1..MaxPosts : ServerJoin(i)
    \/ \E i \in 1..MaxPosts, outcome \in {"project_completed", "project_failed"} :
          ServerFinish(i, outcome)
    \/ onConnect
    \/ onProgressUpdate
    \/ onProjectCompleted
    \/ onProjectFailed

SpecApp == AppInit /\ [][AppNext]_vars

\* PresentationPreview: its parent changes the id, fetches end, the user
\* clicks and presses keys.
PreviewInit == PreviewMounted /\ ThemeIdle /\ DeckIdle /\ AppIdle /\ SubmitIdle

PreviewNext ==
    \/ \E id \in {<<>>} \cup {<<pid>> : pid \in PresentationIds} : changePresentationId(id)
    \/ \E id \in PresentationIds : fetchResolved(id)
    \/ \E id \in PresentationIds : fetchRejected(id)
    \/ clickPrevious
    \/ clickNext
    \/ \E index \in 0..(MaxSlides - 1) : selectDot(index)
    \/ \E key \in KeyInputs : handleKeyPress(key)

SpecPreview == PreviewInit /\ [][PreviewNext]_vars

\* The App of ppt-generator-ui: handleSubmit calls and the connections they
\* open.
SubmitInit == SubmitIdle /\ ThemeIdle /\ DeckIdle /\ AppIdle /\ PreviewIdle

SubmitNext ==
    \/ handleSubmit
    \/ \E i \in 1..MaxSubmits : createRejected(i)
    \/ \E i \in 1..MaxSubmits, success \in BOOLEAN : createResolved(i, success)
    \/ \E i \in 1..MaxSubmits : generateRejected(i)
    \/ \E i \in 1..MaxSubmits, success \in BOOLEAN : generateResolved(i, success)
    \/ \E i \in 1..MaxSubmits : socketConnect(i)
    \/ \E i \in 1..MaxSubmits : socketStatusUpdate(i)
    \/ \E i \in 1..MaxSubmits, reconnects \in BOOLEAN : socketDisconnect(i, reconnects)

SpecSubmit == SubmitInit /\ [][SubmitNext]_vars

(***************************************************************************)
(* Vocabulary of the properties                                            *)
(***************************************************************************)
\* The layout family a rendered <section> shows: the centred title layout
\* is the hero, a two-column grid is twoColumn, and a headline alone on a
\* solid background in the default layout is plain.
FamilyOf(section) ==
    CASE section.layoutClasses = getLayoutClasses("title") -> "hero"
      [] section.layoutClasses = getLayoutClasses("split") -> "twoColumn"
      [] /\ section.layoutClasses = getLayoutClasses("default")
         /\ section.backgroundImage = "undefined"
         /\ section.body = "undefined" -> "plain"
      [] OTHER -> "content"

ReplacementFamilies == {"twoColumn", "cards", "timeline", "quoteBlock", "imageFeature"}

PlainSections == {i \in DOMAIN rendered.sections : FamilyOf(rendered.sections[i]) = "plain"}

IsLiteral(value) == \A i \in DOMAIN value : value[i] # "undefined"

AllLiteral(props) == \A k \in DOMAIN props : IsLiteral(props[k])

\* The colour and font roles every consumer of a theme reads.
RequiredRoles ==
    {"colors.primary", "colors.secondary", "colors.accent", "colors.background",
     "colors.text", "fonts.heading", "fonts.body"}

(***************************************************************************)
(* Properties                                                              *)
(***************************************************************************)
\* C1: for any input deck, the slides handed to the renderer hold at most
\* one slide of the plain family.  The code has no stage between the input
\* deck and Presentation, so this is stated of what Presentation renders.
C1_AtMostOnePlain ==
    rendered.status = "ok" => Cardinality(PlainSections) <= 1

\* C2: the slide at index 0 always resolves to the hero family, whatever its
\* type, layout or content.
C2_FirstSlideHero ==
    (rendered.status = "ok" /\ Len(rendered.sections) >= 1)
        => FamilyOf(rendered.sections[1]) = "hero"

\* C3: no two index-adjacent non-hero slides share a family.  (The
\* round-robin fallback the claim excepts does not exist in the code, so it
\* is never forced.)
C3_NoAdjacentSameFamily ==
    rendered.status = "ok" =>
        \A i \in 1..(Len(rendered.sections) - 1) :
            FamilyOf(rendered.sections[i]) = FamilyOf(rendered.sections[i + 1])
                => FamilyOf(rendered.sections[i]) = "hero"

\* C5: for every registered theme and every slide type, style resolution
\* reads no object or role the theme lacks: it neither throws nor yields an
\* undefined value.
C5_ThemeTotality ==
    (styles.by # "none" /\ styles.theme \in RegisteredThemes)
        => (styles.status = "ok" /\ AllLiteral(styles.props))

\* C6: a theme lacking a required colour or font role never becomes the
\* theme the provider hands to its consumers.
C6_IncompleteThemeRejected ==
    RequiredRoles \subseteq DOMAIN ProviderTheme.vals

\* C8: for the ten-slide deck whose slides 0, 2, 5, 7 and 9 are plain, slide
\* 0 is hero, exactly one of slides 2, 5, 7 and 9 stays plain, and the other
\* three get pairwise distinct replacement families that differ from the
\* families of their neighbours.
C8_ExampleDeckVaried ==
    (slides = ExampleDeck /\ rendered.status = "ok") =>
        /\ FamilyOf(rendered.sections[1]) = "hero"
        /\ Cardinality(PlainSections \cap {3, 6, 8, 10}) = 1
        /\ \A i \in {3, 6, 8, 10} \ PlainSections :
              /\ FamilyOf(rendered.sections[i]) \in ReplacementFamilies
              /\ FamilyOf(rendered.sections[i]) # FamilyOf(rendered.sections[i - 1])
              /\ \A j \in {3, 6, 8, 10} \ PlainSections :
                    i # j => FamilyOf(rendered.sections[i]) # FamilyOf(rendered.sections[j])

\* C9: a deck that is a sequence is never failed or shortened by one
\* malformed record: every record is rendered, in order, and a record with
\* neither headline nor body gets a placeholder headline.
C9_MalformedRecordTolerated ==
    (slides.kind = "array" /\ rendered.status # "pending") =>
        /\ rendered.status = "ok"
        /\ Len(rendered.sections) = Len(slides.items)
        /\ \A i \in DOMAIN rendered.sections :
              /\ rendered.sections[i].key = i - 1
              /\ rendered.sections[i].body = slides.items[i].content
              /\ (slides.items[i].title = "undefined" /\ slides.items[i].content = "undefined")
                    => rendered.sections[i].headline # "undefined"

\* C10: once a theme has been applied to a deck of slide objects, every
\* slide carries a resolved style, and every value of it is a literal: none
\* is undefined.
C10_StylesAreLiteral ==
    (/\ themed.status # "pending"
     /\ slides.kind = "array"
     /\ \A i \in DOMAIN slides.items : ~slides.items[i].isNull) =>
        /\ themed.status = "ok"
        /\ AllLiteral(themed.styles)
        /\ \A i \in DOMAIN themed.slides : AllLiteral(themed.slides[i].styles)

\* C11: a run is aborted only by a rejected blueprint or a rejected theme,
\* never by a raw internal exception: a deck that is a sequence gets a
\* rendered slide for every input position, and applying a theme to a deck
\* ends in a themed deck of the same length or in a reported theme error.
C11_OnlyDeclaredAborts ==
    /\ rendered.status \in {"pending", "ok", "InvalidBlueprint"}
    /\ themed.status \in {"pending", "ok", "InvalidBlueprint", "ThemeConfigurationError"}
    /\ (slides.kind = "array" /\ rendered.status # "pending")
          => (rendered.status = "ok" /\ DOMAIN rendered.sections = DOMAIN slides.items)
    /\ (slides.kind = "array" /\ themed.status = "ok")
          => DOMAIN themed.slides = DOMAIN slides.items

\* The roles of ThemeSpec, each with the spellings under which the code's
\* registries could hold it (config/theme.jsx writes background_end,
\* text_secondary and text_light).
ThemeSpecRoles ==
    {{"colors.primary"}, {"colors.secondary"}, {"colors.accent"},
     {"colors.background"}, {"colors.backgroundEnd", "colors.background_end"},
     {"colors.text"}, {"colors.textSecondary", "colors.text_secondary"},
     {"colors.textOnDark", "colors.text_light"},
     {"fonts.heading"}, {"fonts.body"}}

GradientAngles == {ToString(n) : n \in 0..359}

ConformsToThemeSpec(theme) ==
    /\ \A role \in ThemeSpecRoles :
          \E path \in role : path \in DOMAIN theme.vals /\ IsLiteral(theme.vals[path])
    /\ "gradient.angle" \in DOMAIN theme.vals
    /\ theme.vals["gradient.angle"][1] \in GradientAngles

\* C12: every registered theme (the entries of defaultThemes and of themes,
\* and CustomTheme), and so every theme a provider exposes while no custom
\* theme is installed, defines all eight colour roles, both font roles and a
\* gradient angle in 0..359.
C12_RegisteredThemesConform ==
    /\ \A theme \in RegisteredThemes \cup {CustomTheme} : ConformsToThemeSpec(theme)
    /\ customTheme = <<>> => ConformsToThemeSpec(ProviderTheme)
    /\ ConformsToThemeSpec(themes[presTheme])

\* C13: a generation request is sent only for a slide count between 1 and
\* 20 and a non-blank prompt, and it carries that count and the trimmed
\* prompt; a call of handleGenerate with a blank prompt or a slide count
\* below 1 or above 20 issues no POST, leaves isGenerating and
\* currentProject as they were and appends exactly one warning to the log.
C13_InvalidRequestNotSent ==
    [][/\ requests' # requests =>
            /\ Trim(prompt) # "" /\ numSlides >= 1 /\ numSlides <= 20
            /\ requests' = Append(requests, [prompt |-> Trim(prompt),
                                             num_slides |-> numSlides])
       /\ (handleGenerate /\ (Trim(prompt) = "" \/ numSlides < 1 \/ numSlides > 20)) =>
            /\ requests' = requests
            /\ unanswered' = unanswered
            /\ isGenerating' = isGenerating
            /\ currentProject' = currentProject
            /\ Len(logs') = Len(logs) + 1
            /\ SubSeq(logs', 1, Len(logs)) = logs
            /\ LogType(logs'[Len(logs')]) = "warning"]_vars

\* Both refusals have happened, the second for a slide count above 20 with
\* a description present, and nothing was posted.
C13_Refused ==
    /\ Len(logs) >= 2
    /\ \E i \in 1..(Len(logs) - 1) : logs[i] = "Please enter a presentation description"
    /\ logs[Len(logs)] = "Number of slides must be between 1 and 20"
    /\ Trim(prompt) # ""
    /\ numSlides > 20
    /\ requests = <<>>

\* The input slides that are plain: an object with the default layout, no
\* background and no body.
PlainInputs ==
    {i \in DOMAIN slides.items :
        /\ ~slides.items[i].isNull
        /\ slides.items[i].layout = "undefined"
        /\ slides.items[i].background = "undefined"
        /\ slides.items[i].content = "undefined"}

\* How much subtitle/body content an input slide carries.
Richness(slide) ==
    (IF slide.title = "undefined" THEN 0 ELSE 1) + (IF slide.content = "undefined" THEN 0 ELSE 1)

\* C15: of more than one plain slide exactly one is rendered plain, the
\* richest of them and among equally rich ones the one of lowest index;
\* every other plain input slide is rendered in a non-plain family.
C15_OnePlainKept ==
    (rendered.status = "ok" /\ slides.kind = "array" /\ Cardinality(PlainInputs) > 1) =>
        \E k \in PlainInputs :
            /\ PlainSections \cap PlainInputs = {k}
            /\ \A j \in PlainInputs :
                  \/ Richness(slides.items[j]) < Richness(slides.items[k])
                  \/ (Richness(slides.items[j]) = Richness(slides.items[k]) /\ k <= j)

\* The classification signals a slide record of the code can carry, and the
\* precedence among them.
Signals(slide, index) ==
    {"plain"}
    \cup (IF index = 0 \/ slide.layout = "title" THEN {"hero"} ELSE {})
    \cup (IF slide.layout = "split" THEN {"twoColumn"} ELSE {})

Precedence ==
    <<"hero", "imageFeature", "cards", "timeline", "quoteBlock", "twoColumn", "plain">>

Highest(signals) ==
    Precedence[CHOOSE i \in DOMAIN Precedence :
                  /\ Precedence[i] \in signals
                  /\ \A j \in 1..(i - 1) : Precedence[j] \notin signals]

\* C17: when several signals match one slide the family it is rendered in is
\* the highest in the order hero > ... > twoColumn > plain, and it is the
\* family the slide gets when rendered on its own, whatever its neighbours.
C17_HighestSignalWins ==
    (rendered.status = "ok" /\ slides.kind = "array") =>
        \A i \in DOMAIN rendered.sections :
            /\ Cardinality(Signals(slides.items[i], i - 1)) > 2
                  => FamilyOf(rendered.sections[i]) = Highest(Signals(slides.items[i], i - 1))
            /\ FamilyOf(rendered.sections[i])
                  = FamilyOf(Presentation(Array(<<slides.items[i]>>)).sections[1])

\* The two colours a resolved gradient runs between.
GradientEnds(value) == <<value[3], value[4]>>

IsGradientBetween(value, theme, from, to) ==
    /\ Len(value) = 4
    /\ value[1] = "linear-gradient"
    /\ GradientEnds(value) = <<Prop(theme, from)[1], Prop(theme, to)[1]>>

\* C18: whichever path resolves it, the title style of a theme is a gradient
\* from colors.primary to colors.secondary and the quote style a gradient
\* from colors.secondary to colors.accent.  (A slide component's caller may
\* pass a background of its own, which is no gradient; a resolution that
\* throws is the subject of C5.)
C18_SameGradientOnEveryPath ==
    styles.status = "ok" =>
        /\ (styles.by = "TitleSlide" /\ styles.props["background"][1] = "linear-gradient")
              => IsGradientBetween(styles.props["background"], styles.theme,
                                   "colors.primary", "colors.secondary")
        /\ (styles.by = "QuoteSlide" /\ styles.props["background"][1] = "linear-gradient")
              => IsGradientBetween(styles.props["background"], styles.theme,
                                   "colors.secondary", "colors.accent")
        /\ styles.by = "getThemeVariables"
              => /\ IsGradientBetween(styles.props["--theme-gradient-primary"], styles.theme,
                                      "colors.primary", "colors.secondary")
                 /\ IsGradientBetween(styles.props["--theme-gradient-secondary"], styles.theme,
                                      "colors.secondary", "colors.accent")
        /\ (styles.by = "generateSlideStyles" /\ styles.type = "title")
              => IsGradientBetween(styles.props["background"], styles.theme,
                                   "colors.primary", "colors.secondary")
        /\ (styles.by = "generateSlideStyles" /\ styles.type = "quote")
              => IsGradientBetween(styles.props["background"], styles.theme,
                                   "colors.secondary", "colors.accent")

EndUnderWay ==
    \/ unanswered # {}
    \/ \E i \in 1..MaxPosts :
          jobs[i] = "running" \/ events[i] \in {"project_completed", "project_failed"}

\* C22: once a generation was started successfully (its POST returned a
\* project_id and join_project was emitted for it), the client leaves the
\* generating state: whatever the order of the job's end and the join, its
\* closing event is not lost while the client is still generating with
\* nothing else under way that could end that state.
C22_StartedGenerationEnds ==
    \A i \in joined :
        (jobs[i] = "done" /\ isGenerating) => (events[i] # "dropped" \/ EndUnderWay)

\* C27: in every reachable state of the socket-driven App, isGenerating
\* implies that currentProject is null, so the Download button is not
\* offered while a generation is in progress.
C27_GeneratingHasNoProject ==
    isGenerating => (currentProject = <<>> /\ ~DownloadOffered)

\* A second generation is in progress after a first one was completed and
\* its project shown.
C27_SecondGeneration ==
    /\ isGenerating
    /\ Len(requests) = 2
    /\ unanswered = {2}
    /\ events[1] = "handled"
    /\ \E k \in DOMAIN logs : logs[k] = "Presentation generated successfully!"

\* C23: in PresentationPreview, whenever a presentation with n >= 1 slides
\* is loaded, 0 <= currentSlideIndex < n, after any sequence of
\* handlePrevious, handleNext, dot selections and reloads by a change of
\* presentationId, a reload to a presentation with fewer slides included.
C23_IndexInRange ==
    (presentation # <<>> /\ SlideCount >= 1) =>
        currentSlideIndex \in 0..(SlideCount - 1)

\* C24: while no presentation is loaded (still loading, fetch failed, or no
\* presentationId) the arrow keys leave currentSlideIndex as it was
\* constructed and raise no error.
C24_KeysWithoutPresentation ==
    presentation = <<>> => (currentSlideIndex = 0 /\ ~raised)

C26_HookThemeComplete ==
    /\ HookThemeDefined
    /\ HookTheme.name # Undefined
    /\ \E id \in defaultThemeIds : defaultThemes[id].objs \subseteq HookTheme.objs

\* C28: in handleSubmit of the ppt-generator-ui App, isGenerating is true
\* from the start of the call until it returns and false afterwards, in
\* every outcome: creation fails, creation returns a non-success status,
\* generation fails, or generation succeeds.
C28_GeneratingUntilReturn ==
    /\ uiIsGenerating <=> \E i \in 1..MaxSubmits : calls[i] \in InFlight
    /\ (\A i \in 1..MaxSubmits : calls[i] \in Returned \cup {"idle"}) => ~uiIsGenerating

\* Four calls have returned, one in each outcome, the last of them with a
\* generation that succeeded.
C28_EveryOutcome ==
    /\ {calls[i] : i \in 1..MaxSubmits} = Returned
    /\ uiLogs # <<>>
    /\ uiLogs[Len(uiLogs)] = "Generation completed successfully"
    /\ ~uiIsGenerating

\* C29: in the ppt-generator-ui App at most one socket connection is open
\* at any time: a connection opened for an earlier project is closed before
\* or when the connection for the next project is opened.
C29_OneOpenSocket == Cardinality(OpenSockets) <= 1

====
